---- MODULE Spec2Model ----
(***************************************************************************)
(* A model of eli, a terminal JSON-RPC client: the App state (src/app.rs), *)
(* the three key-event handlers (src/events.rs) and the event loop that    *)
(* dispatches a key to the handler of the current mode (src/main.rs), and   *)
(* the JSON-RPC exchange send_rpc_request (src/rpc.rs).                    *)
(*                                                                         *)
(* Strings are sequences of one-character strings, Option<T> is a sequence *)
(* of length 0 (None) or 1 (Some), Vec indices are 0-based as in the code. *)
(***************************************************************************)
EXTENDS Integers, Sequences, FiniteSets, TLC

VARIABLES mode, should_quit, search_input, all_methods, filtered_methods,
          methods_state, param_inputs, history, history_state, key, handler,
          rpc

app == <<mode, should_quit, search_input, all_methods, filtered_methods,
         methods_state, param_inputs, history, history_state>>

vars == <<mode, should_quit, search_input, all_methods, filtered_methods,
          methods_state, param_inputs, history, history_state, key, handler,
          rpc>>

(***************************************************************************)
(* Bounds of the model.                                                    *)
(***************************************************************************)
\* longest search_input a key event may produce
MaxQuery == 2

\* longest first parameter field a key event may produce
MaxField == 1

\* longest history a test fixture holds
MaxHistory == 2

(***************************************************************************)
(* Option, Vec and String helpers.                                         *)
(***************************************************************************)
None == <<>>

Some(x) == <<x>>

unwrap_or(o, d) == IF o = None THEN d ELSE o[1]

\* Vec::get with a 0-based index
get(v, i) == IF i >= 0 /\ i < Len(v) THEN Some(v[i + 1]) ELSE None

\* String::pop / Vec::pop: drops the last element, nothing when empty
pop(s) == IF Len(s) = 0 THEN s ELSE SubSeq(s, 1, Len(s) - 1)

UpperAZ == <<"A","B","C","D","E","F","G","H","I","J","K","L","M",
             "N","O","P","Q","R","S","T","U","V","W","X","Y","Z">>

LowerAZ == <<"a","b","c","d","e","f","g","h","i","j","k","l","m",
             "n","o","p","q","r","s","t","u","v","w","x","y","z">>

\* the lowercase of each ASCII uppercase letter
LowerOf ==
    [c \in {UpperAZ[i] : i \in DOMAIN UpperAZ} |->
        LowerAZ[CHOOSE i \in DOMAIN UpperAZ : UpperAZ[i] = c]]

to_lowercase_char(c) == IF c \in DOMAIN LowerOf THEN LowerOf[c] ELSE c

\* str::to_lowercase
to_lowercase(s) == [i \in DOMAIN s |-> to_lowercase_char(s[i])]

\* str::contains
contains(hay, needle) ==
    /\ Len(needle) <= Len(hay)
    /\ \E i \in 0..(Len(hay) - Len(needle)) :
          SubSeq(hay, i + 1, i + Len(needle)) = needle

\* char::is_control on the characters a key event of the model carries
is_control(c) == c \in {"\t", "\n", "\r"}

(***************************************************************************)
(* App::new (src/app.rs).                                                  *)
(***************************************************************************)
eth_blockNumber == <<"e","t","h","_","b","l","o","c","k","N","u","m","b","e","r">>

eth_getBalance == <<"e","t","h","_","g","e","t","B","a","l","a","n","c","e">>

eth_gasPrice == <<"e","t","h","_","g","a","s","P","r","i","c","e">>

eth_call == <<"e","t","h","_","c","a","l","l">>

NewAllMethods == <<eth_blockNumber, eth_getBalance, eth_gasPrice, eth_call>>

eth_sendTransaction ==
    <<"e","t","h","_","s","e","n","d","T","r","a","n","s","a","c","t","i","o","n">>

\* spec::MethodSpec
MethodSpec(name, params) == [name |-> name, params |-> params]

\* spec::RPC_SPECS, the registry of method signatures; no handler reads it
RPC_SPECS ==
    << MethodSpec(eth_blockNumber, <<>>),
       MethodSpec(eth_getBalance,
                  << <<"a","d","d","r","e","s","s">>, <<"b","l","o","c","k">> >>),
       MethodSpec(eth_sendTransaction,
                  << <<"t","x","_","o","b","j","e","c","t">> >>),
       MethodSpec(eth_call,
                  << <<"c","a","l","l","_","o","b","j","e","c","t">>,
                     <<"b","l","o","c","k">> >>) >>

NoKey == [code |-> "None", ch |-> "", modifiers |-> {}]

\* a plausible slip: ListState::default() is kept, nothing is selected
AppNew_NoSelection ==
    /\ mode = "Main"
    /\ should_quit = FALSE
    /\ search_input = <<>>
    /\ all_methods = NewAllMethods
    /\ filtered_methods = NewAllMethods
    /\ methods_state = None
    /\ param_inputs = <<>>
    /\ history = <<>>
    /\ history_state = Some(0)

AppNew ==
    /\ mode = "Main"
    /\ should_quit = FALSE
    /\ search_input = <<>>
    /\ all_methods = NewAllMethods
    /\ filtered_methods = NewAllMethods
    /\ methods_state = Some(0)
    /\ param_inputs = <<>>
    /\ history = <<>>
    /\ history_state = Some(0)

(***************************************************************************)
(* App::filter_methods (src/app.rs).                                       *)
(***************************************************************************)
RECURSIVE filter_iter(_, _)
\* the iterator chain .iter().filter(|m| m.to_lowercase().contains(&query)).cloned().collect()
filter_iter(methods, query) ==
    IF methods = <<>> THEN <<>>
    ELSE LET m == Head(methods)
             rest == filter_iter(Tail(methods), query)
         IN  IF contains(to_lowercase(m), query) THEN <<m>> \o rest ELSE rest

\* a plausible slip: the query is matched as typed, not in lowercase
filter_methods_list_QueryAsTyped(methods, input) ==
    IF input = <<>> THEN methods ELSE filter_iter(methods, input)

\* a plausible slip: with nothing to match the list is left as it is
filter_methods_list_EmptyKeeps(methods, input) ==
    LET query == to_lowercase(input)
    IN  IF query = <<>> THEN filtered_methods ELSE filter_iter(methods, query)

\* the value filter_methods assigns to filtered_methods
filter_methods_list(methods, input) ==
    LET query == to_lowercase(input)
    IN  IF query = <<>> THEN methods ELSE filter_iter(methods, query)

\* a plausible slip: the selection is kept instead of reset
filter_methods_select_Keep == methods_state

\* the selection filter_methods leaves
filter_methods_select == Some(0)

\* filter_methods on an App whose search_input is input
filter_methods(input) ==
    /\ filtered_methods' = filter_methods_list(all_methods, input)
    /\ methods_state' = filter_methods_select

(***************************************************************************)
(* Key events (crossterm KeyEvent: a code and a set of modifiers).         *)
(***************************************************************************)
Char(c, m) == [code |-> "Char", ch |-> c, modifiers |-> m]

Key(code) == [code |-> code, ch |-> "", modifiers |-> {}]

KeyEvents ==
    {Char("c", m) : m \in SUBSET {"CONTROL", "SHIFT"}}
      \cup {Char("h", m) : m \in {{}, {"CONTROL"}}}
      \cup {Char("B", {}), Char("\t", {})}
      \cup {Key(c) : c \in {"Backspace", "Up", "Down", "Enter", "Esc"}}

\* a plausible slip: the modifiers are compared with CONTROL, not searched
IsCtrlC_ControlAlone(k) ==
    k.code = "Char" /\ k.ch = "c" /\ k.modifiers = {"CONTROL"}

\* KeyEvent { code: KeyCode::Char('c'), modifiers, .. } if modifiers.contains(CONTROL)
IsCtrlC(k) == k.code = "Char" /\ k.ch = "c" /\ "CONTROL" \in k.modifiers

\* KeyEvent { code: KeyCode::Char(c), modifiers: KeyModifiers::NONE, .. } if !c.is_control()
IsPrintable(k) == k.code = "Char" /\ k.modifiers = {} /\ ~is_control(k.ch)

\* a plausible slip: the pattern leaves the modifiers open with `..`
IsCharH_AnyModifiers(k) == k.code = "Char" /\ k.ch = "h"

\* KeyEvent { code: KeyCode::Char('h'), modifiers: KeyModifiers::NONE, .. }
IsCharH(k) == k.code = "Char" /\ k.ch = "h" /\ k.modifiers = {}

\* a plausible slip: quitting also goes back to the main screen
quit_mode_Main == "Main"

\* the mode the Ctrl+C arm of each handler leaves: the arm sets should_quit only
quit_mode == mode

(***************************************************************************)
(* handle_main_mode (src/events.rs): the match arms in source order.       *)
(***************************************************************************)
\* a plausible slip: one field per declared parameter of nothing
MainEnterParams_Empty == <<>>

\* vec!["".to_string(), "".to_string()]
MainEnterParams == << <<>>, <<>> >>

\* a plausible slip: the Up arm moves without looking at i
main_up_select_Unguarded == Some(unwrap_or(methods_state, 0) - 1)

\* the Up arm: select(Some(i - 1)) when i > 0
main_up_select ==
    LET i == unwrap_or(methods_state, 0)
    IN  IF i > 0 THEN Some(i - 1) ELSE methods_state

\* a plausible slip: the bound is checked with <= instead of <
main_down_select_OffByOne ==
    LET i == unwrap_or(methods_state, 0)
    IN  IF i + 1 <= Len(filtered_methods) THEN Some(i + 1) ELSE methods_state

\* the Down arm: select(Some(i + 1)) when i + 1 < filtered_methods.len()
main_down_select ==
    LET i == unwrap_or(methods_state, 0)
    IN  IF i + 1 < Len(filtered_methods) THEN Some(i + 1) ELSE methods_state

handle_main_mode(k) ==
    IF IsCtrlC(k) THEN
        /\ should_quit' = TRUE
        /\ mode' = quit_mode
        /\ UNCHANGED <<search_input, all_methods, filtered_methods,
                       methods_state, param_inputs, history, history_state>>
    ELSE IF IsPrintable(k) THEN
        /\ search_input' = Append(search_input, k.ch)
        /\ filter_methods(search_input')
        /\ UNCHANGED <<mode, should_quit, all_methods, param_inputs, history,
                       history_state>>
    ELSE IF k.code = "Backspace" THEN
        /\ search_input' = pop(search_input)
        /\ filter_methods(search_input')
        /\ UNCHANGED <<mode, should_quit, all_methods, param_inputs, history,
                       history_state>>
    ELSE IF k.code = "Up" THEN
        /\ methods_state' = main_up_select
        /\ UNCHANGED <<mode, should_quit, search_input, all_methods,
                       filtered_methods, param_inputs, history, history_state>>
    ELSE IF k.code = "Down" THEN
        /\ methods_state' = main_down_select
        /\ UNCHANGED <<mode, should_quit, search_input, all_methods,
                       filtered_methods, param_inputs, history, history_state>>
    ELSE IF k.code = "Enter" THEN
        /\ param_inputs' = MainEnterParams
        /\ mode' = "ParamInput"
        /\ UNCHANGED <<should_quit, search_input, all_methods, filtered_methods,
                       methods_state, history, history_state>>
    ELSE IF IsCharH(k) THEN
        /\ mode' = "History"
        /\ UNCHANGED <<should_quit, search_input, all_methods, filtered_methods,
                       methods_state, param_inputs, history, history_state>>
    ELSE UNCHANGED app

(***************************************************************************)
(* handle_param_input_mode (src/events.rs).                                *)
(***************************************************************************)
\* a plausible slip: Esc clears the field set on the way out
ParamEscParams_Clear == <<>>

\* the field set the Esc arm leaves: the arm does not touch it
ParamEscParams == param_inputs

\* a plausible slip: the character goes to the last field
param_push_Last(c) ==
    IF param_inputs # <<>>
    THEN [param_inputs EXCEPT ![Len(param_inputs)] = Append(@, c)]
    ELSE param_inputs

\* the printable arm: if let Some(field) = param_inputs.get_mut(0) { field.push(c) }
param_push(c) ==
    IF get(param_inputs, 0) # None
    THEN [param_inputs EXCEPT ![1] = Append(@, c)]
    ELSE param_inputs

\* the Backspace arm: if let Some(field) = param_inputs.get_mut(0) { field.pop() }
param_pop ==
    IF get(param_inputs, 0) # None
    THEN [param_inputs EXCEPT ![1] = pop(@)]
    ELSE param_inputs

handle_param_input_mode(k) ==
    IF IsCtrlC(k) THEN
        /\ should_quit' = TRUE
        /\ mode' = quit_mode
        /\ UNCHANGED <<search_input, all_methods, filtered_methods,
                       methods_state, param_inputs, history, history_state>>
    ELSE IF k.code = "Esc" THEN
        /\ mode' = "Main"
        /\ param_inputs' = ParamEscParams
        /\ UNCHANGED <<should_quit, search_input, all_methods, filtered_methods,
                       methods_state, history, history_state>>
    ELSE IF k.code = "Enter" THEN
        /\ mode' = "Main"
        /\ UNCHANGED <<should_quit, search_input, all_methods, filtered_methods,
                       methods_state, param_inputs, history, history_state>>
    ELSE IF IsPrintable(k) THEN
        /\ param_inputs' = param_push(k.ch)
        /\ UNCHANGED <<mode, should_quit, search_input, all_methods,
                       filtered_methods, methods_state, history, history_state>>
    ELSE IF k.code = "Backspace" THEN
        /\ param_inputs' = param_pop
        /\ UNCHANGED <<mode, should_quit, search_input, all_methods,
                       filtered_methods, methods_state, history, history_state>>
    ELSE UNCHANGED app

(***************************************************************************)
(* JSON-RPC requests and responses (src/rpc.rs) and serde_json::Value.     *)
(***************************************************************************)
JNull == [tag |-> "Null", s |-> <<>>, n |-> 0, items |-> <<>>]

JString(s) == [tag |-> "String", s |-> s, n |-> 0, items |-> <<>>]

JNumber(n) == [tag |-> "Number", s |-> <<>>, n |-> n, items |-> <<>>]

JArray(items) == [tag |-> "Array", s |-> <<>>, n |-> 0, items |-> items]

\* Value::as_array
as_array(v) == IF v.tag = "Array" THEN Some(v.items) ELSE None

Digit == <<"0","1","2","3","4","5","6","7","8","9">>

RECURSIVE digits(_)
digits(n) == IF n < 10 THEN <<Digit[n + 1]>>
             ELSE digits(n \div 10) \o <<Digit[(n % 10) + 1]>>

\* Value::to_string (Display: compact JSON) of a scalar or an empty array;
\* the characters of the model need no escape
value_to_string(v) ==
    CASE v.tag = "Null" -> <<"n","u","l","l">>
      [] v.tag = "String" -> <<"\"">> \o v.s \o <<"\"">>
      [] v.tag = "Number" -> digits(v.n)
      [] OTHER -> <<"[","]">>

\* JsonRpcRequest::new
JsonRpcRequest(method, params, id) ==
    [jsonrpc |-> <<"2",".","0">>, method |-> method, params |-> params, id |-> id]

JsonRpcResponse(result, error, id) ==
    [jsonrpc |-> <<"2",".","0">>, result |-> result, error |-> error, id |-> id]

(***************************************************************************)
(* send_rpc_request (src/rpc.rs).  rpc is one call of it: pc is the await  *)
(* the future stands at, net is what the network and the peer have done,   *)
(* resp the HTTP response once its head has arrived, result the value the  *)
(* future returns.  The errors are reqwest's: an Error has a kind, and the *)
(* `?` operator wraps it in an anyhow::Error that downcast_ref opens.      *)
(***************************************************************************)
Ok(v) == [tag |-> "Ok", v |-> v]

Err(e) == [tag |-> "Err", v |-> e]

ReqwestError(kind, cause) == [kind |-> kind, cause |-> cause]

\* reqwest::Error::is_decode
is_decode(e) == e.kind = "Decode"

\* a plausible slip: .map_err(|_| anyhow!("request failed"))
anyhow_from_Message(e) == [inner |-> None]

\* the conversion `?` applies: anyhow::Error::from keeps the error it wraps
anyhow_from(e) == [inner |-> Some(e)]

\* anyhow::Error::downcast_ref::<reqwest::Error>
downcast_ref(a) == a.inner

\* IntoUrl: a string is a URL if it has a scheme and an authority
IntoUrl(url) == contains(url, <<":","/","/">>)

\* a response body: a JSON object, given by the four members the envelope
\* names (None: the member is absent), or bytes that are no JSON object
ObjectBody(jsonrpc, result, error, id) ==
    [tag |-> "Object", jsonrpc |-> jsonrpc, result |-> result,
     error |-> error, id |-> id]

TextBody == [tag |-> "Text", jsonrpc |-> None, result |-> None,
             error |-> None, id |-> None]

\* Option<Value>: an absent member and a null are both None
option_value(member) ==
    IF member = None \/ member[1].tag = "Null" THEN None ELSE member

\* serde_json::from_slice::<JsonRpcResponse>: jsonrpc must be a string and
\* id a u64; result and error are optional; other members are ignored
from_slice(body) ==
    IF /\ body.tag = "Object"
       /\ body.jsonrpc # None
       /\ body.jsonrpc[1].tag = "String"
       /\ body.id # None
       /\ body.id[1].tag = "Number"
       /\ body.id[1].n >= 0
    THEN Ok([JsonRpcResponse(option_value(body.result),
                             option_value(body.error), body.id[1].n)
                EXCEPT !.jsonrpc = body.jsonrpc[1].s])
    ELSE Err(ReqwestError("Decode", "json"))

\* no call of send_rpc_request: the handlers never make one
NoCall == [pc |-> "none", url |-> <<>>, req_body |-> None, net |-> "none",
           resp |-> None, result |-> None]

\* send_rpc_request(url, req_body), up to its first await
Call(url, req_body) ==
    [pc |-> "send", url |-> url, req_body |-> Some(req_body),
     net |-> "pending", resp |-> None, result |-> None]

\* the ways the network fails before a response head arrives
SendFailures == {"unreachable", "timeout", "reset"}

\* the ways the network fails while the body is read
BodyFailures == {"timeout", "reset"}

Bodies ==
    {TextBody} \cup
    {ObjectBody(j, r, e, i) :
        j \in {None, Some(JString(<<"2",".","0">>)),
               Some(JString(<<"1",".","0">>)), Some(JNumber(2))},
        r \in {None, Some(JNull), Some(JString(<<"0","x","1">>))},
        e \in {None, Some(JString(<<"e","r","r">>))},
        i \in {None, Some(JNumber(1)), Some(JNumber(0 - 1)), Some(JNull)}}

\* the HTTP responses a peer may give; the status is never looked at
Responses == [status : {200, 500}, body : Bodies]

\* client.post(url).json(&req_body).send().await?
send_await ==
    /\ rpc.pc = "send"
    /\ IF ~IntoUrl(rpc.url)
       THEN rpc' = [rpc EXCEPT
                       !.pc = "done",
                       !.net = "none",
                       !.result = Some(Err(anyhow_from(
                                      ReqwestError("Builder", "url"))))]
       ELSE \/ \E f \in SendFailures :
                 rpc' = [rpc EXCEPT
                            !.pc = "done",
                            !.net = f,
                            !.result = Some(Err(anyhow_from(
                                           ReqwestError("Request", f))))]
            \/ \E r \in Responses :
                 rpc' = [rpc EXCEPT
                            !.pc = "json", !.net = "head", !.resp = Some(r)]
    /\ UNCHANGED <<app, key, handler>>

\* resp.json::<JsonRpcResponse>().await? and Ok(rpc_res)
json_await ==
    /\ rpc.pc = "json"
    /\ \/ \E f \in BodyFailures :
            rpc' = [rpc EXCEPT
                       !.pc = "done",
                       !.net = f,
                       !.result = Some(Err(anyhow_from(
                                      ReqwestError("Body", f))))]
       \/ LET rpc_res == from_slice(rpc.resp[1].body)
          IN  rpc' = [rpc EXCEPT
                         !.pc = "done",
                         !.net = "delivered",
                         !.result = Some(IF rpc_res.tag = "Ok"
                                         THEN rpc_res
                                         ELSE Err(anyhow_from(rpc_res.v)))]
    /\ UNCHANGED <<app, key, handler>>

\* all_methods.iter().position(|m| m == &method)
position(methods, method) ==
    IF \E i \in DOMAIN methods : methods[i] = method
    THEN Some((CHOOSE i \in DOMAIN methods :
                  /\ methods[i] = method
                  /\ \A j \in DOMAIN methods : methods[j] = method => i <= j) - 1)
    ELSE None

(***************************************************************************)
(* handle_history_mode (src/events.rs).                                    *)
(***************************************************************************)
\* req.params.as_array().unwrap_or(&vec![]).iter().map(|v| v.to_string()).collect()
replay_params(req) ==
    LET arr == unwrap_or(as_array(req.params), <<>>)
    IN  [i \in DOMAIN arr |-> value_to_string(arr[i])]

\* a plausible slip: the replay keeps the filtered list of the search
replay_filtered_Keep == filtered_methods

\* the list the replay arm assigns to filtered_methods
replay_filtered == all_methods

\* a plausible slip: the replay clears the search it leaves behind
replay_search_Clear == <<>>

\* the search_input the replay arm leaves: the arm does not touch it
replay_search == search_input

\* a plausible slip: the replayed entry is taken out of the history
replay_history_Take ==
    LET c == unwrap_or(history_state, 0)
    IN  SubSeq(history, 1, c) \o SubSeq(history, c + 2, Len(history))

\* the history the replay arm leaves: the arm only reads it
replay_history == history

\* the Up arm: select(Some(i - 1)) when i > 0
history_up_select ==
    LET i == unwrap_or(history_state, 0)
    IN  IF i > 0 THEN Some(i - 1) ELSE history_state

\* a plausible slip: the bound is checked with <= instead of <
history_down_select_OffByOne ==
    LET i == unwrap_or(history_state, 0)
    IN  IF i + 1 <= Len(history) THEN Some(i + 1) ELSE history_state

\* the Down arm: select(Some(i + 1)) when i + 1 < history.len()
history_down_select ==
    LET i == unwrap_or(history_state, 0)
    IN  IF i + 1 < Len(history) THEN Some(i + 1) ELSE history_state

handle_history_mode(k) ==
    IF IsCtrlC(k) THEN
        /\ should_quit' = TRUE
        /\ mode' = quit_mode
        /\ UNCHANGED <<search_input, all_methods, filtered_methods,
                       methods_state, param_inputs, history, history_state>>
    ELSE IF k.code = "Esc" THEN
        /\ mode' = "Main"
        /\ UNCHANGED <<should_quit, search_input, all_methods, filtered_methods,
                       methods_state, param_inputs, history, history_state>>
    ELSE IF k.code = "Up" THEN
        /\ history_state' = history_up_select
        /\ UNCHANGED <<mode, should_quit, search_input, all_methods,
                       filtered_methods, methods_state, param_inputs, history>>
    ELSE IF k.code = "Down" THEN
        /\ history_state' = history_down_select
        /\ UNCHANGED <<mode, should_quit, search_input, all_methods,
                       filtered_methods, methods_state, param_inputs, history>>
    ELSE IF k.code = "Enter" THEN
        LET entry == get(history, unwrap_or(history_state, 0))
        IN  IF entry # None THEN
                LET req == entry[1].req
                    idx == position(all_methods, req.method)
                IN  /\ filtered_methods' = replay_filtered
                    /\ methods_state' = IF idx # None THEN Some(idx[1])
                                        ELSE methods_state
                    /\ param_inputs' = replay_params(req)
                    /\ mode' = "ParamInput"
                    /\ search_input' = replay_search
                    /\ history' = replay_history
                    /\ UNCHANGED <<should_quit, all_methods, history_state>>
            ELSE UNCHANGED app
    ELSE UNCHANGED app

(***************************************************************************)
(* The event loop (src/main.rs): one key is read and handed to the         *)
(* handler of the current mode; the loop ends once should_quit is set.     *)
(* From App::new no key leads to History mode (the printable arm of        *)
(* handle_main_mode takes 'h' first) and nothing is ever pushed to         *)
(* history, so under Spec the third arm of dispatch never runs; TestSpec   *)
(* below starts handle_history_mode from states a caller sets up.          *)
(***************************************************************************)
\* the key events that keep the typed text within the bounds of the model
WithinBounds(k) ==
    IsPrintable(k) =>
        /\ mode = "Main" => Len(search_input) < MaxQuery
        /\ mode = "ParamInput" /\ param_inputs # <<>> =>
               Len(param_inputs[1]) < MaxField

dispatch(k) ==
    /\ key' = k
    /\ handler' = mode
    /\ UNCHANGED rpc
    /\ CASE mode = "Main" -> handle_main_mode(k)
         [] mode = "ParamInput" -> handle_param_input_mode(k)
         [] mode = "History" -> handle_history_mode(k)

main_loop ==
    /\ ~should_quit
    /\ \E k \in KeyEvents : WithinBounds(k) /\ dispatch(k)

Init == AppNew /\ key = NoKey /\ handler = "None" /\ rpc = NoCall

Next == main_loop

Spec == Init /\ [][Next]_vars

(***************************************************************************)
(* The unit tests' way in (src/events.rs, src/app.rs tests): App::new(),   *)
(* then the pub fields are assigned, then a handler or filter_methods is   *)
(* called on the App directly.  The handler called is the one the event    *)
(* loop would pick for the mode.                                           *)
(***************************************************************************)
MethodLists == {NewAllMethods, <<>>, <<eth_call, eth_blockNumber>>}

SearchFixtures == {<<>>, <<"B">>}

ParamFixtures == {<<>>, << <<"p">>, <<"h">> >>}

\* the requests a fixture's history holds, oldest first: a known method with
\* an array of parameters, an unknown method with parameters that are no
\* array, a known method with an array of non-string parameters
Journal ==
    << [req |-> JsonRpcRequest(eth_getBalance,
                   JArray(<<JString(<<"0","x","A","B","C">>),
                            JString(<<"l","a","t","e","s","t">>)>>), 1),
        res |-> JsonRpcResponse(Some(JString(<<"0","x","1">>)), None, 1)],
       [req |-> JsonRpcRequest(<<"e","t","h","_","c","h","a","i","n","I","d">>,
                   JNull, 2),
        res |-> JsonRpcResponse(None, Some(JString(<<"e","r","r">>)), 2)],
       [req |-> JsonRpcRequest(eth_call, JArray(<<JNumber(12), JNull>>), 3),
        res |-> JsonRpcResponse(None, None, 3)] >>

\* the histories of at most MaxHistory entries
HistoryFixtures ==
    {SubSeq(Journal, 1, n) : n \in 0..(IF MaxHistory < Len(Journal)
                                        THEN MaxHistory ELSE Len(Journal))}

\* the indices select(Some(i)) is given in a fixture over list v
Cursors(v) == {Some(i) : i \in 0..(IF Len(v) = 0 THEN 0 ELSE Len(v) - 1)}

\* a test of filter_methods or of handle_main_mode: any method list
MainFixture ==
    /\ mode = "Main"
    /\ all_methods \in MethodLists
    /\ param_inputs = <<>>
    /\ history = <<>>

\* a test of handle_param_input_mode
ParamInputFixture ==
    /\ mode = "ParamInput"
    /\ all_methods = NewAllMethods
    /\ param_inputs \in ParamFixtures
    /\ history = <<>>

\* a test of handle_history_mode: any history
HistoryFixture ==
    /\ mode = "History"
    /\ all_methods = NewAllMethods
    /\ param_inputs \in ParamFixtures
    /\ history \in HistoryFixtures

TestInit ==
    /\ MainFixture \/ ParamInputFixture \/ HistoryFixture
    /\ should_quit \in BOOLEAN
    /\ search_input \in SearchFixtures
    /\ filtered_methods \in
           {all_methods, filter_methods_list(all_methods, search_input)}
    /\ methods_state \in Cursors(filtered_methods)
    /\ history_state \in Cursors(history)
    /\ key = NoKey
    /\ handler = "None"
    /\ rpc = NoCall

\* a test calls a handler on an App that has not quit, or once on the App it
\* has just set up, whose should_quit may be set
TestCall == ~should_quit \/ handler = "None"

TestMain ==
    /\ TestCall
    /\ mode = "Main"
    /\ \E k \in KeyEvents : WithinBounds(k) /\ dispatch(k)

TestParamInput ==
    /\ TestCall
    /\ mode = "ParamInput"
    /\ \E k \in KeyEvents : WithinBounds(k) /\ dispatch(k)

TestHistory ==
    /\ TestCall
    /\ mode = "History"
    /\ \E k \in KeyEvents : WithinBounds(k) /\ dispatch(k)

\* app.filter_methods() called by a test
TestFilter ==
    /\ ~should_quit
    /\ key' = NoKey
    /\ handler' = "filter_methods"
    /\ filter_methods(search_input)
    /\ UNCHANGED <<mode, should_quit, search_input, all_methods, param_inputs,
                   history, history_state, rpc>>

TestNext == TestMain \/ TestParamInput \/ TestHistory \/ TestFilter

TestSpec == TestInit /\ [][TestNext]_vars

(***************************************************************************)
(* A call of send_rpc_request, as the test in src/rpc.rs makes one: the    *)
(* App is left alone.                                                      *)
(***************************************************************************)
Urls == {<<"h","t","t","p",":","/","/","l",":","8","5","4","5">>, <<"l">>}

Requests ==
    {JsonRpcRequest(eth_blockNumber, JArray(<<>>), 1),
     JsonRpcRequest(eth_getBalance,
         JArray(<<JString(<<"0","x","A","B","C">>),
                  JString(<<"l","a","t","e","s","t">>)>>), 42)}

RpcInit ==
    /\ AppNew
    /\ key = NoKey
    /\ handler = "None"
    /\ \E url \in Urls, req_body \in Requests : rpc = Call(url, req_body)

RpcNext == send_await \/ json_await

RpcSpec == RpcInit /\ [][RpcNext]_vars

(***************************************************************************)
(* Claims.  key is the last event read and handler the mode whose handler  *)
(* took it, so a step "of the Enter arm in ParamInput mode" is a step with *)
(* handler' = "ParamInput" and key'.code = "Enter".                        *)
(***************************************************************************)

\* C1: in ParamInput mode a confirm event (Enter) appends exactly one entry
\* to history and sets the mode to Main.
C1_SubmitAppendsOneEntry ==
    [][(handler' = "ParamInput" /\ key'.code = "Enter") =>
          /\ Len(history') = Len(history) + 1
          /\ mode' = "Main"]_vars

\* C2: in Main mode the key 'h' with no modifiers sets the mode to History
\* and leaves search_input, filtered_methods and the methods cursor alone.
C2_HOpensHistory ==
    [][(handler' = "Main" /\ key' = Char("h", {})) =>
          /\ mode' = "History"
          /\ search_input' = search_input
          /\ filtered_methods' = filtered_methods
          /\ methods_state' = methods_state]_vars

\* C3: every call of filter_methods (direct, or by a printable character or
\* Backspace in Main mode) leaves in filtered_methods exactly the methods of
\* all_methods whose lowercase name contains the lowercase search_input, in
\* all_methods order; a second direct call right after a first changes nothing.
C3_FilterIsCaseInsensitiveSubsequence ==
    /\ [](LET refiltered ==
                  \/ handler = "filter_methods"
                  \/ /\ handler = "Main"
                     /\ key.code = "Backspace" \/ key \in {Char("c", {}),
                                                          Char("h", {}),
                                                          Char("B", {})}
              q == to_lowercase(search_input)
              M == {i \in DOMAIN all_methods :
                       contains(to_lowercase(all_methods[i]), q)}
              nth(n) == CHOOSE i \in M : Cardinality({j \in M : j < i}) = n - 1
          IN  refiltered =>
                 /\ Len(filtered_methods) = Cardinality(M)
                 /\ \A n \in 1..Cardinality(M) :
                        filtered_methods[n] = all_methods[nth(n)])
    /\ [][(handler = "filter_methods" /\ handler' = "filter_methods") =>
             UNCHANGED app]_vars

\* a filter that had to fold case on both sides has run
C3_Witness ==
    /\ handler = "filter_methods"
    /\ all_methods = NewAllMethods
    /\ search_input = <<"B">>
    /\ filtered_methods = <<eth_blockNumber, eth_getBalance>>

C5_ArrowsMoveCursorWithinList ==
    [][(handler' = "Main" /\ key'.code \in {"Up", "Down"}) =>
          LET i == unwrap_or(methods_state, 0)
              last == Len(filtered_methods) - 1
          IN  /\ key'.code = "Up" =>
                    /\ (0 <= i - 1 /\ i - 1 <= last) =>
                           methods_state' = Some(i - 1)
                    /\ i = 0 => methods_state' = methods_state
              /\ key'.code = "Down" =>
                    /\ (0 <= i + 1 /\ i + 1 <= last) =>
                           methods_state' = Some(i + 1)
                    /\ i = last => methods_state' = methods_state
              /\ UNCHANGED <<mode, should_quit, search_input, all_methods,
                             filtered_methods, param_inputs, history,
                             history_state>>]_vars

\* Down in Main mode has moved the cursor to the last method of the full list
C5_Witness ==
    /\ handler = "Main"
    /\ key.code = "Down"
    /\ filtered_methods = NewAllMethods
    /\ methods_state = Some(3)

\* C6: in Main mode Enter sets the mode to ParamInput and param_inputs to
\* exactly two empty strings, whatever is selected and whatever the fields held.
C6_MainEnterOpensTwoEmptyFields ==
    [][(handler' = "Main" /\ key'.code = "Enter") =>
          /\ mode' = "ParamInput"
          /\ Len(param_inputs') = 2
          /\ param_inputs'[1] = <<>>
          /\ param_inputs'[2] = <<>>]_vars

\* Enter in Main mode has acted with no method listed
C6_Witness ==
    /\ handler = "Main"
    /\ key.code = "Enter"
    /\ mode = "ParamInput"
    /\ filtered_methods = <<>>
    /\ param_inputs = << <<>>, <<>> >>

\* C7: in ParamInput mode and in History mode Esc sets the mode to Main and
\* leaves search_input and filtered_methods alone; in ParamInput mode it also
\* leaves param_inputs alone.
C7_EscReturnsToMain ==
    [][(handler' \in {"ParamInput", "History"} /\ key'.code = "Esc") =>
          /\ mode' = "Main"
          /\ search_input' = search_input
          /\ filtered_methods' = filtered_methods
          /\ handler' = "ParamInput" => param_inputs' = param_inputs]_vars

\* Esc in ParamInput mode has acted on fields that hold text, under a search
C7_Witness ==
    /\ handler = "ParamInput"
    /\ key.code = "Esc"
    /\ mode = "Main"
    /\ search_input = <<"B">>
    /\ filtered_methods = <<eth_blockNumber, eth_getBalance>>
    /\ param_inputs = << <<"p">>, <<"h">> >>

\* C8: in History mode Enter on an entry at the history cursor sets the mode
\* to ParamInput, filtered_methods to all_methods, the methods cursor to the
\* index of the request's method in all_methods when it is there (unchanged
\* when not), and param_inputs to the strings of the elements of the request's
\* params array, in order (none when params is no array); with no entry at
\* the cursor it changes nothing.
C8_ReplayLoadsRequest ==
    [][(handler' = "History" /\ key'.code = "Enter") =>
          LET c == unwrap_or(history_state, 0)
          IN  IF c < Len(history)
              THEN LET req == history[c + 1].req
                       args == IF req.params.tag = "Array"
                               THEN req.params.items ELSE <<>>
                       at == {i \in DOMAIN all_methods :
                                 all_methods[i] = req.method}
                   IN  /\ mode' = "ParamInput"
                       /\ filtered_methods' = all_methods
                       /\ at # {} => /\ methods_state' # None
                                     /\ methods_state'[1] + 1 \in at
                       /\ at = {} => methods_state' = methods_state
                       /\ Len(param_inputs') = Len(args)
                       /\ \A i \in DOMAIN args :
                              param_inputs'[i] = value_to_string(args[i])
              ELSE /\ mode' = "History"
                   /\ UNCHANGED app]_vars

\* a request of eth_getBalance has been replayed over a filtered list
C8_Witness ==
    /\ handler = "History"
    /\ key.code = "Enter"
    /\ mode = "ParamInput"
    /\ search_input = <<"B">>
    /\ filtered_methods = NewAllMethods
    /\ methods_state = Some(1)
    /\ param_inputs = << <<"\"","0","x","A","B","C","\"">>,
                         <<"\"","l","a","t","e","s","t","\"">> >>

\* C9: in each mode Ctrl+C sets should_quit, and a step sets should_quit only
\* when its key is Ctrl+C.
C9_OnlyCtrlCQuits ==
    [][LET quit == /\ key'.code = "Char"
                   /\ key'.ch = "c"
                   /\ "CONTROL" \in key'.modifiers
       IN  /\ (handler' \in {"Main", "ParamInput", "History"} /\ quit) =>
                 should_quit'
           /\ (~should_quit /\ should_quit') => quit]_vars

\* Ctrl+C has been handled in History mode
C9_Witness ==
    /\ handler = "History"
    /\ mode = "History"
    /\ key = Char("c", {"CONTROL"})
    /\ should_quit

\* C10: after a printable character or Backspace handled in Main mode the
\* methods cursor is at index 0.
C10_RefilterResetsCursor ==
    (/\ handler = "Main"
     /\ \/ key.code = "Backspace"
        \/ key.code = "Char" /\ key.modifiers = {} /\ ~is_control(key.ch))
        => methods_state = Some(0)

\* Backspace in Main mode has refiltered to a list with more than one method
C10_Witness ==
    /\ handler = "Main"
    /\ key.code = "Backspace"
    /\ search_input = <<"B">>
    /\ Len(filtered_methods) = 2
    /\ methods_state = Some(0)

\* C11: a re-filter in Main mode with an empty search_input leaves
\* filtered_methods equal to all_methods, whatever it was before; a printable
\* character appends itself to search_input and Backspace removes exactly the
\* last character (nothing from an empty search_input), so n deletes after n
\* characters restore the empty search and the full list.
C11_EmptySearchListsAllMethods ==
    /\ []((/\ handler = "Main"
           /\ \/ key.code = "Backspace"
              \/ key.code = "Char" /\ key.modifiers = {} /\ ~is_control(key.ch)
           /\ search_input = <<>>)
             => filtered_methods = all_methods)
    /\ [][/\ (/\ handler' = "Main"
              /\ key'.code = "Char" /\ key'.modifiers = {}
              /\ ~is_control(key'.ch))
                => search_input' = search_input \o <<key'.ch>>
          /\ (handler' = "Main" /\ key'.code = "Backspace") =>
                IF search_input = <<>>
                THEN search_input' = <<>>
                ELSE search_input =
                         search_input' \o <<search_input[Len(search_input)]>>]_vars

\* the last typed character has been deleted again in Main mode
C11_Witness ==
    /\ handler = "Main"
    /\ key.code = "Backspace"
    /\ search_input = <<>>
    /\ filtered_methods = NewAllMethods

C13_NewAppState ==
    handler = "None" =>
        /\ mode = "Main"
        /\ should_quit = FALSE
        /\ search_input = <<>>
        /\ filtered_methods = all_methods
        /\ methods_state = Some(0)
        /\ param_inputs = <<>>
        /\ history = <<>>
        /\ history_state = Some(0)

\* App::new() has run and no event has been read yet
C13_Witness ==
    /\ handler = "None"
    /\ key = NoKey
    /\ mode = "Main"
    /\ Len(all_methods) = 4
    /\ filtered_methods = all_methods

\* C14: filtered_methods is never stale: a handler of any mode that starts
\* with filtered_methods equal to the case-insensitive filter of all_methods by
\* search_input ends with filtered_methods equal to the filter of all_methods
\* by the search_input it leaves.
C14_FilteredListNeverStale ==
    [][(/\ handler' \in {"Main", "ParamInput", "History"}
        /\ filtered_methods = filter_methods_list(all_methods, search_input))
          => filtered_methods' = filter_methods_list(all_methods', search_input')]_vars

\* C15: after Enter in Main mode, param_inputs has as many fields as RPC_SPECS
\* declares parameters for the method under the methods cursor (0 for
\* eth_blockNumber, 2 for eth_getBalance).
C15_ParamFieldsMatchRegistry ==
    [][(handler' = "Main" /\ key'.code = "Enter") =>
          LET selected == get(filtered_methods, unwrap_or(methods_state, 0))
          IN  \A i \in DOMAIN RPC_SPECS :
                  selected = Some(RPC_SPECS[i].name) =>
                      Len(param_inputs') = Len(RPC_SPECS[i].params)]_vars

\* C16: search_input is changed only by events handled in Main mode: every
\* event handled by handle_param_input_mode or handle_history_mode (printable
\* character, delete, move, confirm, replay, cancel, quit) leaves it unchanged.
C16_SearchInputOwnedByMainMode ==
    [][handler' \in {"ParamInput", "History"} =>
          search_input' = search_input]_vars

\* a replay has run on an App that holds a search
C16_Witness ==
    /\ handler = "History"
    /\ key.code = "Enter"
    /\ mode = "ParamInput"
    /\ search_input = <<"B">>

\* C17: in ParamInput mode a printable character is appended to the first
\* field of param_inputs and Backspace removes the last character of the first
\* field (nothing when it is empty); the other fields, the number of fields,
\* the mode and every other field of the App are unchanged; when param_inputs
\* has no fields both events change nothing.
C17_ParamKeysEditFirstFieldOnly ==
    [][LET typed == /\ key'.code = "Char"
                    /\ key'.modifiers = {}
                    /\ key'.ch \notin {"\t", "\n", "\r"}
           deleted == key'.code = "Backspace"
       IN  (handler' = "ParamInput" /\ (typed \/ deleted)) =>
              /\ UNCHANGED <<mode, should_quit, search_input, all_methods,
                             filtered_methods, methods_state, history,
                             history_state>>
              /\ Len(param_inputs') = Len(param_inputs)
              /\ \A i \in DOMAIN param_inputs :
                     i > 1 => param_inputs'[i] = param_inputs[i]
              /\ param_inputs # <<>> =>
                     LET field == param_inputs[1]
                     IN  param_inputs'[1] =
                             IF typed THEN field \o <<key'.ch>>
                             ELSE IF field = <<>> THEN <<>>
                             ELSE SubSeq(field, 1, Len(field) - 1)]_vars

\* a character has been typed into the first of two fields
C17_Witness ==
    /\ handler = "ParamInput"
    /\ key = Char("B", {})
    /\ param_inputs = << <<"B">>, <<"h">> >>

\* C18: an event that matches no pattern of the mode that handles it (Esc in
\* Main, Up or Down in ParamInput, a character or Backspace in History, a
\* character with modifiers other than Ctrl+C, a control character) leaves the
\* whole App unchanged; and in every state a test sets up or a call of
\* filter_methods leaves, the handler of the mode accepts every event.
C18_UnrecognizedEventsAreIgnored ==
    /\ [](key = NoKey => \A k \in KeyEvents : ENABLED dispatch(k))
    /\ [][LET quit == /\ key'.code = "Char"
                      /\ key'.ch = "c"
                      /\ "CONTROL" \in key'.modifiers
              printable == /\ key'.code = "Char"
                           /\ key'.modifiers = {}
                           /\ key'.ch \notin {"\t", "\n", "\r"}
              recognized ==
                  CASE handler' = "Main" ->
                           \/ quit
                           \/ printable
                           \/ key'.code \in {"Backspace", "Up", "Down", "Enter"}
                    [] handler' = "ParamInput" ->
                           \/ quit
                           \/ printable
                           \/ key'.code \in {"Esc", "Enter", "Backspace"}
                    [] handler' = "History" ->
                           \/ quit
                           \/ key'.code \in {"Esc", "Up", "Down", "Enter"}
                    [] OTHER -> TRUE
          IN  ~recognized => UNCHANGED app]_vars

\* a printable character has been handled in History mode
C18_Witness ==
    /\ handler = "History"
    /\ key = Char("B", {})
    /\ mode = "History"
    /\ history # <<>>

\* C19 as stated: in every reachable state the history cursor is an index of
\* history, 0 <= cursor <= len(history) - 1.
C19_HistoryCursorIsValidIndex ==
    /\ history_state # None
    /\ 0 <= history_state[1]
    /\ history_state[1] <= Len(history) - 1

\* C19: in every reachable state the history cursor is an index of history
\* when history is not empty and is 0 when history is empty; in History mode Up
\* decrements it when it is above 0 and Down increments it when the result is
\* at most len(history) - 1, both leave it alone otherwise, and neither
\* changes another field of the App.
C19_HistoryCursorIsValidIndexOrZero ==
    /\ [](/\ history_state # None
          /\ history # <<>> =>
                 0 <= history_state[1] /\ history_state[1] <= Len(history) - 1
          /\ history = <<>> => history_state[1] = 0)
    /\ [][(handler' = "History" /\ key'.code \in {"Up", "Down"}) =>
             LET i == history_state[1]
                 moved == IF key'.code = "Up" THEN i - 1 ELSE i + 1
             IN  /\ history_state' =
                        IF 0 <= moved /\ moved <= Len(history) - 1
                        THEN Some(moved) ELSE history_state
                 /\ UNCHANGED <<mode, should_quit, search_input, all_methods,
                                filtered_methods, methods_state, param_inputs,
                                history>>]_vars

\* Down has moved the history cursor to the last of two entries
C19_Witness ==
    /\ handler = "History"
    /\ key.code = "Down"
    /\ Len(history) = 2
    /\ history_state = Some(1)

\* C20: history is append-only: the history a step leaves has the history the
\* step started with as a prefix, so every later history extends every
\* earlier one; browsing and replay leave it as it is.
C20_HistoryIsAppendOnly ==
    [][/\ Len(history) <= Len(history')
       /\ \A i \in DOMAIN history : history'[i] = history[i]]_vars

\* the second of two entries has been replayed and both are still there
C20_Witness ==
    /\ handler = "History"
    /\ key.code = "Enter"
    /\ mode = "ParamInput"
    /\ history = SubSeq(Journal, 1, 2)
    /\ history_state = Some(1)

\* C21: the mode changes exactly along five edges: Enter moves Main to
\* ParamInput, 'h' moves Main to History, Esc or Enter moves ParamInput to
\* Main, Esc moves History to Main, Enter on a history entry moves History to
\* ParamInput; every other event leaves the mode as it is (so nothing moves
\* ParamInput to History), and with these edges every mode is reachable from
\* the state App::new() builds.
C21_ModeChangesAlongEdges ==
    [][handler' \in {"Main", "ParamInput", "History"} =>
          mode' =
              CASE handler' = "Main" /\ key'.code = "Enter" -> "ParamInput"
                [] handler' = "Main" /\ key' = Char("h", {}) -> "History"
                [] handler' = "ParamInput" /\ key'.code \in {"Esc", "Enter"} ->
                       "Main"
                [] handler' = "History" /\ key'.code = "Esc" -> "Main"
                [] /\ handler' = "History"
                   /\ key'.code = "Enter"
                   /\ history_state # None
                   /\ history_state[1] < Len(history) -> "ParamInput"
                [] OTHER -> handler']_vars

\* C22: should_quit is monotone and Ctrl+C is otherwise pure: no step resets
\* should_quit once it is true, and Ctrl+C handled in any mode sets should_quit
\* and changes no other field of the App (no 'c' is appended to search_input
\* or to a parameter field, the mode stays).
C22_QuitIsMonotoneAndPure ==
    [][/\ should_quit => should_quit'
       /\ (/\ handler' \in {"Main", "ParamInput", "History"}
           /\ key'.code = "Char"
           /\ key'.ch = "c"
           /\ "CONTROL" \in key'.modifiers)
             => /\ should_quit'
                /\ UNCHANGED <<mode, search_input, all_methods,
                               filtered_methods, methods_state, param_inputs,
                               history, history_state>>]_vars

\* Ctrl+C has been handled in ParamInput mode with two filled fields
C22_Witness ==
    /\ handler = "ParamInput"
    /\ key = Char("c", {"CONTROL"})
    /\ should_quit
    /\ mode = "ParamInput"
    /\ search_input = <<"B">>
    /\ param_inputs = << <<"p">>, <<"h">> >>

====
